---- MODULE Spec2Model ----
(***************************************************************************)
(* Author / Book / Contract many-to-many model of lib/many_to_many.py.     *)
(*                                                                         *)
(* Python objects are identified by their position of creation within      *)
(* their class (object identity); the three class-level lists Author.all,  *)
(* Book.all and Contract.all hold these identities.  The private           *)
(* attributes (_name, _title, _author, _book, _date, _royalties) are the   *)
(* heap, indexed by identity.  Python values passed by the caller are      *)
(* records [kind, n, s]: kind is the Python type, n the integer value or   *)
(* the identity of the referenced object, s the characters of a string.    *)
(***************************************************************************)
EXTENDS Integers, Sequences, FiniteSets, TLC

VARIABLES Author_all, Book_all, Contract_all, author_name, book_title, contract, last

vars == <<Author_all, Book_all, Contract_all, author_name, book_title, contract, last>>

registries == <<Author_all, Book_all, Contract_all>>

\* Bound of the model: number of registered instances of all three classes.
MaxObjects == 5

(***************************************************************************)
(* Python values                                                           *)
(***************************************************************************)
StrV(chars) == [kind |-> "str", n |-> 0, s |-> chars]
IntV(i) == [kind |-> "int", n |-> i, s |-> <<>>]
FloatV(i) == [kind |-> "float", n |-> i, s |-> <<>>]
NoneV == [kind |-> "NoneType", n |-> 0, s |-> <<>>]
AuthorRef(i) == [kind |-> "Author", n |-> i, s |-> <<>>]
BookRef(i) == [kind |-> "Book", n |-> i, s |-> <<>>]
ContractRef(i) == [kind |-> "Contract", n |-> i, s |-> <<>>]

isinstance(value, cls) == value.kind = cls

\* str.strip(): drop leading and trailing whitespace, keep inner whitespace.
RECURSIVE lstrip(_)
lstrip(chars) ==
    IF chars = <<>> THEN <<>>
    ELSE IF Head(chars) = " " THEN lstrip(Tail(chars)) ELSE chars

RECURSIVE rstrip(_)
rstrip(chars) ==
    IF chars = <<>> THEN <<>>
    ELSE IF chars[Len(chars)] = " " THEN rstrip(SubSeq(chars, 1, Len(chars) - 1))
    ELSE chars

strip(chars) == rstrip(lstrip(chars))

Range(seq) == {seq[i] : i \in DOMAIN seq}

NoError == "none"
TypeError == "TypeError"
ValueError == "ValueError"

Result(op, err, ret) == [op |-> op, err |-> err, ret |-> ret]

RegisteredAuthors == {AuthorRef(i) : i \in Range(Author_all)}
RegisteredBooks == {BookRef(i) : i \in Range(Book_all)}

Live == Len(Author_all) + Len(Book_all) + Len(Contract_all)

(***************************************************************************)
(* Author                                                                  *)
(***************************************************************************)
\* Author.__init__, the validation of lines 12-13.
Author_init_error(name) ==
    IF ~isinstance(name, "str") \/ strip(name.s) = <<>> THEN ValueError ELSE NoError

\* Author.__init__, line 14: the stored name.
Author_init_name(name) == strip(name.s)

\* A registration that inserts at the front instead of appending.
Author_init_register_front(all, self) == <<self>> \o all

\* Author.__init__, line 15: Author.all.append(self).
Author_init_register(all, self) == Append(all, self)

Author__init__(name) ==
    LET err == Author_init_error(name)
        self == Len(author_name) + 1
    IN  IF err = NoError
        THEN /\ Live < MaxObjects
             /\ author_name' = Append(author_name, Author_init_name(name))
             /\ Author_all' = Author_init_register(Author_all, self)
             /\ last' = Result("Author", NoError, <<AuthorRef(self)>>)
             /\ UNCHANGED <<Book_all, Contract_all, book_title, contract>>
        ELSE /\ last' = Result("Author", err, <<>>)
             /\ UNCHANGED <<Author_all, Book_all, Contract_all, author_name, book_title, contract>>

\* A filter that compares authors by name instead of by identity.
Author_contracts_by_name(self) ==
    LET Mine(c) == author_name[contract[c].author.n] = author_name[self]
    IN  SelectSeq(Contract_all, Mine)

\* Author.contracts: [c for c in Contract.all if c.author is self]
Author_contracts(self) ==
    LET Mine(c) == contract[c].author = AuthorRef(self)
    IN  SelectSeq(Contract_all, Mine)

\* A loop that forgets to skip the books already seen.
RECURSIVE Author_books_loop_all(_, _, _)
Author_books_loop_all(todo, seen, result) ==
    IF todo = <<>> THEN result
    ELSE Author_books_loop_all(Tail(todo), seen, Append(result, contract[Head(todo)].book))

\* The for loop of Author.books (lines 30-33) over the contracts still to visit.
RECURSIVE Author_books_loop(_, _, _)
Author_books_loop(todo, seen, result) ==
    IF todo = <<>> THEN result
    ELSE LET bk == contract[Head(todo)].book
         IN  IF bk \notin seen
             THEN Author_books_loop(Tail(todo), seen \cup {bk}, Append(result, bk))
             ELSE Author_books_loop(Tail(todo), seen, result)

Author_books(self) == Author_books_loop(Author_contracts(self), {}, <<>>)

\* sum(c.royalties for c in ...)
RECURSIVE sum_royalties(_)
sum_royalties(cs) ==
    IF cs = <<>> THEN 0 ELSE contract[Head(cs)].royalties.n + sum_royalties(Tail(cs))

\* A total that counts one contract per book only.
Author_total_royalties_per_book(self) ==
    LET cs == Author_contracts(self)
        FirstOfBook(c) ==
            \A i, j \in DOMAIN cs :
                (cs[j] = c /\ i < j) => contract[cs[i]].book # contract[c].book
    IN  sum_royalties(SelectSeq(cs, FirstOfBook))

Author_total_royalties(self) == sum_royalties(Author_contracts(self))

(***************************************************************************)
(* Book                                                                    *)
(***************************************************************************)
Book_init_error(title) ==
    IF ~isinstance(title, "str") \/ strip(title.s) = <<>> THEN ValueError ELSE NoError

Book_init_title(title) == strip(title.s)

Book_init_register(all, self) == Append(all, self)

Book__init__(title) ==
    LET err == Book_init_error(title)
        self == Len(book_title) + 1
    IN  IF err = NoError
        THEN /\ Live < MaxObjects
             /\ book_title' = Append(book_title, Book_init_title(title))
             /\ Book_all' = Book_init_register(Book_all, self)
             /\ last' = Result("Book", NoError, <<BookRef(self)>>)
             /\ UNCHANGED <<Author_all, Contract_all, author_name, contract>>
        ELSE /\ last' = Result("Book", err, <<>>)
             /\ UNCHANGED <<Author_all, Book_all, Contract_all, author_name, book_title, contract>>

\* Book.contracts: [c for c in Contract.all if c.book is self]
Book_contracts(self) ==
    LET Mine(c) == contract[c].book = BookRef(self)
    IN  SelectSeq(Contract_all, Mine)

\* A loop that tells authors apart by their name instead of their identity.
RECURSIVE Book_authors_loop_by_name(_, _, _)
Book_authors_loop_by_name(todo, seen, result) ==
    IF todo = <<>> THEN result
    ELSE LET au == contract[Head(todo)].author
             key == StrV(author_name[au.n])
         IN  IF key \notin seen
             THEN Book_authors_loop_by_name(Tail(todo), seen \cup {key}, Append(result, au))
             ELSE Book_authors_loop_by_name(Tail(todo), seen, result)

\* The for loop of Book.authors (lines 73-76) over the contracts still to visit.
RECURSIVE Book_authors_loop(_, _, _)
Book_authors_loop(todo, seen, result) ==
    IF todo = <<>> THEN result
    ELSE LET au == contract[Head(todo)].author
         IN  IF au \notin seen
             THEN Book_authors_loop(Tail(todo), seen \cup {au}, Append(result, au))
             ELSE Book_authors_loop(Tail(todo), seen, result)

Book_authors(self) == Book_authors_loop(Book_contracts(self), {}, <<>>)

(***************************************************************************)
(* Contract                                                                *)
(***************************************************************************)
\* An instance whose attributes are not assigned yet (inside __init__).
Unset == [author |-> NoneV, book |-> NoneV, date |-> NoneV, royalties |-> NoneV]

Raise(self, err) == [err |-> err, obj |-> self]
Return(self) == [err |-> NoError, obj |-> self]

\* The property setters: the outcome is the error raised, if any, and the
\* instance after the call.
author_setter(self, value) ==
    IF ~isinstance(value, "Author") THEN Raise(self, TypeError)
    ELSE Return([self EXCEPT !.author = value])

book_setter(self, value) ==
    IF ~isinstance(value, "Book") THEN Raise(self, TypeError)
    ELSE Return([self EXCEPT !.book = value])

\* A date setter that reports a wrong kind as a ValueError.
date_setter_value_error(self, value) ==
    IF ~isinstance(value, "str") THEN Raise(self, ValueError)
    ELSE Return([self EXCEPT !.date = value])

date_setter(self, value) ==
    IF ~isinstance(value, "str") THEN Raise(self, TypeError)
    ELSE Return([self EXCEPT !.date = value])

\* A royalties setter that accepts negative numbers.
royalties_setter_unsigned(self, value) ==
    IF ~isinstance(value, "int") THEN Raise(self, TypeError)
    ELSE Return([self EXCEPT !.royalties = value])

royalties_setter(self, value) ==
    IF ~isinstance(value, "int") THEN Raise(self, TypeError)
    ELSE IF value.n < 0 THEN Raise(self, ValueError)
    ELSE Return([self EXCEPT !.royalties = value])

\* Contract.__init__, lines 89-92: the four assignments in order; the first
\* setter that raises ends the construction.
Contract_init_fields(author, book, date, royalties) ==
    LET s1 == author_setter(Unset, author)
        s2 == IF s1.err = NoError THEN book_setter(s1.obj, book) ELSE s1
        s3 == IF s2.err = NoError THEN date_setter(s2.obj, date) ELSE s2
        s4 == IF s3.err = NoError THEN royalties_setter(s3.obj, royalties) ELSE s3
    IN  s4

\* Contract.__init__, line 93: Contract.all.append(self).
Contract_init_register(all, self) == Append(all, self)

\* A constructor that registers the instance before it assigns the fields.
Contract__init__register_first(op, author, book, date, royalties) ==
    LET made == Contract_init_fields(author, book, date, royalties)
        self == Len(contract) + 1
    IN  /\ Live < MaxObjects
        /\ contract' = Append(contract, made.obj)
        /\ Contract_all' = Contract_init_register(Contract_all, self)
        /\ last' = Result(op, made.err, IF made.err = NoError THEN <<ContractRef(self)>> ELSE <<>>)
        /\ UNCHANGED <<Author_all, Book_all, author_name, book_title>>

\* Contract.__init__, called as Contract(...) (op = "Contract") or by
\* Author.sign_contract (op = "sign_contract"): the instance is registered and
\* returned when the four assignments succeed.
Contract__init__(op, author, book, date, royalties) ==
    LET made == Contract_init_fields(author, book, date, royalties)
        self == Len(contract) + 1
    IN  IF made.err = NoError
        THEN /\ Live < MaxObjects
             /\ contract' = Append(contract, made.obj)
             /\ Contract_all' = Contract_init_register(Contract_all, self)
             /\ last' = Result(op, NoError, <<ContractRef(self)>>)
             /\ UNCHANGED <<Author_all, Book_all, author_name, book_title>>
        ELSE /\ last' = Result(op, made.err, <<>>)
             /\ UNCHANGED <<Author_all, Book_all, Contract_all, author_name, book_title, contract>>

\* A sign_contract that passes date and royalties in the wrong order.
sign_contract_swapped(self, book, date, royalties) ==
    <<AuthorRef(self), book, royalties, date>>

\* The arguments Author.sign_contract passes on to Contract(...), line 38.
sign_contract_arguments(self, book, date, royalties) ==
    <<AuthorRef(self), book, date, royalties>>

\* Author.sign_contract: return Contract(author=self, book=book, date=date, royalties=royalties)
Author_sign_contract(self, book, date, royalties) ==
    LET passed == sign_contract_arguments(self, book, date, royalties)
    IN  Contract__init__("sign_contract", passed[1], passed[2], passed[3], passed[4])

\* A lookup that ignores surrounding whitespace of the dates.
Contract_contracts_by_date_stripped(date) ==
    LET Same(c) == strip(contract[c].date.s) = strip(date.s) /\ contract[c].date.kind = date.kind
    IN  SelectSeq(Contract_all, Same)

\* Contract.contracts_by_date: [c for c in cls.all if c.date == date]
Contract_contracts_by_date(date) ==
    LET Same(c) == contract[c].date = date
    IN  SelectSeq(Contract_all, Same)

\* Assignment to a field of a registered contract: c.author = value, ...
Assign(op, c, outcome) ==
    /\ contract' = [contract EXCEPT ![c] = outcome.obj]
    /\ last' = Result(op, outcome.err, <<>>)
    /\ UNCHANGED <<Author_all, Book_all, Contract_all, author_name, book_title>>

SetAuthor(c, value) == Assign("author=", c, author_setter(contract[c], value))
SetBook(c, value) == Assign("book=", c, book_setter(contract[c], value))
SetDate(c, value) == Assign("date=", c, date_setter(contract[c], value))
SetRoyalties(c, value) == Assign("royalties=", c, royalties_setter(contract[c], value))

(***************************************************************************)
(* Queries: they compute a result and assign nothing.                      *)
(***************************************************************************)
ContractRefs(ids) == [i \in DOMAIN ids |-> ContractRef(ids[i])]

Query(op, ret) ==
    /\ last' = Result(op, NoError, ret)
    /\ UNCHANGED <<Author_all, Book_all, Contract_all, author_name, book_title, contract>>

CallAuthorContracts(a) == Query("Author.contracts", ContractRefs(Author_contracts(a)))
CallAuthorBooks(a) == Query("Author.books", Author_books(a))
CallTotalRoyalties(a) == Query("Author.total_royalties", <<IntV(Author_total_royalties(a))>>)
CallBookContracts(b) == Query("Book.contracts", ContractRefs(Book_contracts(b)))
CallBookAuthors(b) == Query("Book.authors", Book_authors(b))
CallContractsByDate(date) == Query("Contract.contracts_by_date", ContractRefs(Contract_contracts_by_date(date)))

(***************************************************************************)
(* The caller: the values it passes                                        *)
(***************************************************************************)
NameArgs ==
    {StrV(<<"a">>), StrV(<<" ", "a", " ">>), StrV(<<>>), StrV(<<" ", " ">>), IntV(1)}

DateArgs == {StrV(<<"a">>), StrV(<<>>), IntV(1)}

DateQueries == DateArgs \cup {StrV(<<" ", "a">>)}

RoyaltiesArgs == {IntV(0), IntV(1), IntV(-1), FloatV(1)}

AuthorArgs == RegisteredAuthors \cup {StrV(<<"a">>)}

BookArgs == RegisteredBooks \cup {NoneV}

Init ==
    /\ Author_all = <<>>
    /\ Book_all = <<>>
    /\ Contract_all = <<>>
    /\ author_name = <<>>
    /\ book_title = <<>>
    /\ contract = <<>>
    /\ last = Result("start", NoError, <<>>)

NewAuthor == \E name \in NameArgs : Author__init__(name)

NewBook == \E title \in NameArgs : Book__init__(title)

NewContract ==
    \E author \in AuthorArgs, book \in BookArgs, date \in DateArgs, royalties \in RoyaltiesArgs :
        Contract__init__("Contract", author, book, date, royalties)

SignContract ==
    \E a \in Range(Author_all), book \in BookArgs, date \in DateArgs, royalties \in RoyaltiesArgs :
        Author_sign_contract(a, book, date, royalties)

Reassign ==
    \E c \in Range(Contract_all) :
        \/ \E value \in AuthorArgs : SetAuthor(c, value)
        \/ \E value \in BookArgs : SetBook(c, value)
        \/ \E value \in DateArgs : SetDate(c, value)
        \/ \E value \in RoyaltiesArgs : SetRoyalties(c, value)

AuthorQuery ==
    \E a \in Range(Author_all) :
        \/ CallAuthorContracts(a)
        \/ CallAuthorBooks(a)
        \/ CallTotalRoyalties(a)

BookQuery ==
    \E b \in Range(Book_all) :
        \/ CallBookContracts(b)
        \/ CallBookAuthors(b)

DateQuery == \E date \in DateQueries : CallContractsByDate(date)

Next ==
    \/ NewAuthor
    \/ NewBook
    \/ NewContract
    \/ SignContract
    \/ Reassign
    \/ AuthorQuery
    \/ BookQuery
    \/ DateQuery

Spec == Init /\ [][Next]_vars

(***************************************************************************)
(* Vocabulary of the properties                                            *)
(***************************************************************************)
CtorOps == {"Author", "Book", "Contract", "sign_contract"}
SetterOps == {"author=", "book=", "date=", "royalties="}
QueryOps ==
    {"Author.contracts", "Author.books", "Author.total_royalties",
     "Book.contracts", "Book.authors", "Contract.contracts_by_date"}

\* The position of an element in a sequence without repetition.
Pos(seq, x) == CHOOSE k \in DOMAIN seq : seq[k] = x

\* r lists elements of all in the order all has them, none twice.
InOrderOf(r, all) ==
    /\ Range(r) \subseteq Range(all)
    /\ \A i, j \in DOMAIN r : i < j => Pos(all, r[i]) < Pos(all, r[j])

NoDuplicates(r) == \A i, j \in DOMAIN r : r[i] = r[j] => i = j

IsPrefix(old, new) == Len(old) <= Len(new) /\ SubSeq(new, 1, Len(old)) = old

OneAppended(old, new) == Len(new) = Len(old) + 1 /\ SubSeq(new, 1, Len(old)) = old

ContractsOfAuthor(a) == {c \in Range(Contract_all) : contract[c].author = AuthorRef(a)}
ContractsOfBook(b) == {c \in Range(Contract_all) : contract[c].book = BookRef(b)}

\* C1: every registered contract has a registered Author as author, a
\* registered Book as book, a string as date and an integer >= 0 as royalties,
\* whatever constructions, sign_contract calls and reassignments (successful
\* or failing) came before.
C1_RegisteredContractsValid ==
    \A c \in Range(Contract_all) :
        /\ contract[c].author \in RegisteredAuthors
        /\ contract[c].book \in RegisteredBooks
        /\ contract[c].date.kind = "str"
        /\ contract[c].royalties.kind = "int"
        /\ contract[c].royalties.n >= 0

\* C1 witness: a reassignment of royalties to a negative number has just
\* failed on a registry that holds contracts.
C1_Witness ==
    /\ Contract_all # <<>>
    /\ last.op = "royalties="
    /\ last.err = ValueError

\* C2: a failing construction leaves the three registries as they were; a
\* successful one appends exactly one instance to the registry of its kind
\* and leaves the other two as they were.
C2_ConstructionAtomic ==
    [][last'.op \in CtorOps =>
        IF last'.err # NoError
        THEN registries' = registries
        ELSE \/ /\ last'.op = "Author"
                /\ OneAppended(Author_all, Author_all')
                /\ UNCHANGED <<Book_all, Contract_all>>
             \/ /\ last'.op = "Book"
                /\ OneAppended(Book_all, Book_all')
                /\ UNCHANGED <<Author_all, Contract_all>>
             \/ /\ last'.op \in {"Contract", "sign_contract"}
                /\ OneAppended(Contract_all, Contract_all')
                /\ UNCHANGED <<Author_all, Book_all>>]_vars

\* C2 witness: a Contract construction has just failed with two contracts
\* already registered.
C2_Witness ==
    /\ last.op = "Contract"
    /\ last.err # NoError
    /\ Len(Contract_all) >= 2

\* The faults of one value, by field, as the error kinds name them: a value
\* of the wrong kind is a Type fault, a value of the right kind that is not
\* acceptable is a Value fault.
Blank(chars) == \A i \in DOMAIN chars : chars[i] = " "

KindFault(value, kind) == IF value.kind # kind THEN {TypeError} ELSE {}

NameFaultByKind(value) ==
    IF value.kind # "str" THEN {TypeError}
    ELSE IF Blank(value.s) THEN {ValueError} ELSE {}

NameFaultAsValue(value) ==
    IF value.kind # "str" \/ Blank(value.s) THEN {ValueError} ELSE {}

RoyaltiesFault(value) ==
    IF value.kind # "int" THEN {TypeError}
    ELSE IF value.n < 0 THEN {ValueError} ELSE {}

ContractFaults(author, book, date, royalties) ==
    KindFault(author, "Author") \cup KindFault(book, "Book")
        \cup KindFault(date, "str") \cup RoyaltiesFault(royalties)

\* err is the error of one of the faults, and no error when there is none.
ErrorFits(err, faults) == IF faults = {} THEN err = NoError ELSE err \in faults

\* After an operation on Contract, every choice of arguments for which the
\* operation raises what has just been raised (or nothing, if nothing was)
\* has a fault of that kind (or no fault).
ContractErrorsByFault ==
    /\ last.op \in {"Contract", "sign_contract"} =>
        \A author \in AuthorArgs, book \in BookArgs, date \in DateArgs, royalties \in RoyaltiesArgs :
            Contract_init_fields(author, book, date, royalties).err = last.err
                => ErrorFits(last.err, ContractFaults(author, book, date, royalties))
    /\ last.op = "author=" =>
        \A c \in Range(Contract_all), value \in AuthorArgs :
            author_setter(contract[c], value).err = last.err
                => ErrorFits(last.err, KindFault(value, "Author"))
    /\ last.op = "book=" =>
        \A c \in Range(Contract_all), value \in BookArgs :
            book_setter(contract[c], value).err = last.err
                => ErrorFits(last.err, KindFault(value, "Book"))
    /\ last.op = "date=" =>
        \A c \in Range(Contract_all), value \in DateArgs :
            date_setter(contract[c], value).err = last.err
                => ErrorFits(last.err, KindFault(value, "str"))
    /\ last.op = "royalties=" =>
        \A c \in Range(Contract_all), value \in RoyaltiesArgs :
            royalties_setter(contract[c], value).err = last.err
                => ErrorFits(last.err, RoyaltiesFault(value))

\* C3 as stated: a wrong kind raises TypeError and an unacceptable value of the
\* right kind raises ValueError, for the name of an Author and the title of a
\* Book as for the fields of a Contract.
C3_ErrorKindByFault ==
    /\ last.op = "Author" =>
        \A name \in NameArgs :
            Author_init_error(name) = last.err => ErrorFits(last.err, NameFaultByKind(name))
    /\ last.op = "Book" =>
        \A title \in NameArgs :
            Book_init_error(title) = last.err => ErrorFits(last.err, NameFaultByKind(title))
    /\ ContractErrorsByFault

\* C3 amended: as C3 for the fields of a Contract (at construction, through
\* sign_contract and at reassignment); the constructors of Author and Book
\* raise ValueError for a name or title that is not a string as well as for
\* an empty or whitespace-only one, and never TypeError.
C3_ErrorKindAmended ==
    /\ last.op = "Author" =>
        /\ last.err # TypeError
        /\ \A name \in NameArgs :
            Author_init_error(name) = last.err => ErrorFits(last.err, NameFaultAsValue(name))
    /\ last.op = "Book" =>
        /\ last.err # TypeError
        /\ \A title \in NameArgs :
            Book_init_error(title) = last.err => ErrorFits(last.err, NameFaultAsValue(title))
    /\ ContractErrorsByFault

\* C3 witness: the reassignment of a date to a non-string has just raised
\* TypeError.
C3_Witness ==
    /\ last.op = "date="
    /\ last.err = TypeError

\* C4: a.contracts() is the registry restricted to the contracts whose
\* current author is a, and b.contracts() the registry restricted to the
\* contracts whose current book is b, both in registration order.
C4_ContractsAreRegistrySubsequence ==
    /\ \A a \in Range(Author_all) :
        /\ Range(Author_contracts(a)) = ContractsOfAuthor(a)
        /\ InOrderOf(Author_contracts(a), Contract_all)
    /\ \A b \in Range(Book_all) :
        /\ Range(Book_contracts(b)) = ContractsOfBook(b)
        /\ InOrderOf(Book_contracts(b), Contract_all)

\* C4 witness: an author has just been reassigned, and now the first
\* registered contract is the only contract of the second author and the
\* second registered contract the only contract of the first author.
C4_Witness ==
    /\ last.op = "author="
    /\ last.err = NoError
    /\ Len(Author_all) = 2
    /\ Len(Contract_all) = 2
    /\ Author_contracts(Author_all[2]) = <<Contract_all[1]>>
    /\ Author_contracts(Author_all[1]) = <<Contract_all[2]>>

\* The first position in cs of a contract whose book is bk / author is au.
FirstWithBook(cs, bk) == CHOOSE k \in DOMAIN cs : contract[cs[k]].book = bk /\ \A j \in 1..(k - 1) : contract[cs[j]].book # bk
FirstWithAuthor(cs, au) == CHOOSE k \in DOMAIN cs : contract[cs[k]].author = au /\ \A j \in 1..(k - 1) : contract[cs[j]].author # au

\* C5: a.books() holds exactly the books of a.contracts(), each once, ordered
\* by the first contract that references them; b.authors() likewise.  When
\* all n >= 1 registered contracts are between the same a and b, a.books()
\* and b.authors() have length 1 and a.contracts() has length n.
C5_DistinctInFirstSeenOrder ==
    /\ \A a \in Range(Author_all) :
        LET cs == Author_contracts(a)
            r == Author_books(a)
        IN  /\ Range(r) = {contract[c].book : c \in Range(cs)}
            /\ NoDuplicates(r)
            /\ \A i, j \in DOMAIN r : i < j => FirstWithBook(cs, r[i]) < FirstWithBook(cs, r[j])
    /\ \A b \in Range(Book_all) :
        LET cs == Book_contracts(b)
            r == Book_authors(b)
        IN  /\ Range(r) = {contract[c].author : c \in Range(cs)}
            /\ NoDuplicates(r)
            /\ \A i, j \in DOMAIN r : i < j => FirstWithAuthor(cs, r[i]) < FirstWithAuthor(cs, r[j])
    /\ \A a \in Range(Author_all), b \in Range(Book_all) :
        (/\ Contract_all # <<>>
         /\ \A c \in Range(Contract_all) :
                contract[c].author = AuthorRef(a) /\ contract[c].book = BookRef(b))
            => /\ Len(Author_books(a)) = 1
               /\ Len(Book_authors(b)) = 1
               /\ Len(Author_contracts(a)) = Len(Contract_all)

\* C5 witness: books() has just returned a single book for an author with
\* several contracts.
C5_Witness ==
    /\ last.op = "Author.books"
    /\ \E a \in Range(Author_all) :
        /\ Len(Author_contracts(a)) >= 2
        /\ Len(Author_books(a)) = 1
        /\ last.ret = Author_books(a)

\* Arguments that Contract(...) accepts, as the data model states them.
ValidContractArguments(author, book, date, royalties) ==
    /\ author \in RegisteredAuthors
    /\ book \in RegisteredBooks
    /\ date.kind = "str"
    /\ royalties.kind = "int" /\ royalties.n >= 0

\* The error a.sign_contract(book, date, royalties) raises: the error of the
\* construction it passes its arguments on to.
SignContractError(a, book, date, royalties) ==
    LET passed == sign_contract_arguments(a, book, date, royalties)
    IN  Contract_init_fields(passed[1], passed[2], passed[3], passed[4]).err

\* A call of sign_contract has just failed: every choice of arguments that
\* fails this way is not valid, and Contract(a, ...) raises the same error.
SignContractFailure ==
    (last.op = "sign_contract" /\ last.err # NoError) =>
        \A a \in Range(Author_all), book \in BookArgs, date \in DateArgs, royalties \in RoyaltiesArgs :
            SignContractError(a, book, date, royalties) = last.err =>
                /\ ~ValidContractArguments(AuthorRef(a), book, date, royalties)
                /\ last.err = Contract_init_fields(AuthorRef(a), book, date, royalties).err

\* A step of sign_contract: one that fails changes neither the registries
\* nor any contract; one that succeeds was called with valid arguments,
\* appends exactly one new contract holding them, returns it, and relates
\* the author and the book.
SignContractStep ==
    last'.op = "sign_contract" =>
        IF last'.err # NoError
        THEN UNCHANGED <<Author_all, Book_all, Contract_all, contract>>
        ELSE \A a \in Range(Author_all), book \in BookArgs, date \in DateArgs, royalties \in RoyaltiesArgs :
                Author_sign_contract(a, book, date, royalties) =>
                    /\ ValidContractArguments(AuthorRef(a), book, date, royalties)
                    /\ OneAppended(Contract_all, Contract_all')
                    /\ LET new == Contract_all'[Len(Contract_all')]
                       IN  /\ new \notin Range(Contract_all)
                           /\ contract'[new] =
                                  [author |-> AuthorRef(a), book |-> book,
                                   date |-> date, royalties |-> royalties]
                           /\ \A c \in Range(Contract_all) : contract'[c] = contract[c]
                           /\ last'.ret = <<ContractRef(new)>>
                    /\ book \in Range(Author_books(a))'
                    /\ AuthorRef(a) \in Range(Book_authors(book.n))'
                    /\ UNCHANGED <<Author_all, Book_all>>

\* C6: a.sign_contract(b, d, r) with a registered Book b, a string d and an
\* integer r >= 0 appends exactly one new contract (a, b, d, r) to the end of
\* the Contract registry and returns it, and right after the call b is in
\* a.books() and a is in b.authors(); with any other arguments it raises the
\* error of Contract(a, b, d, r) and registers nothing.
C6_SignContract == []SignContractFailure /\ [][SignContractStep]_vars

\* C6 witness: sign_contract has just returned the second registered
\* contract, signed by the author of the first one with another book.
C6_Witness ==
    /\ last.op = "sign_contract"
    /\ last.err = NoError
    /\ Len(Contract_all) = 2
    /\ last.ret = <<ContractRef(Contract_all[2])>>
    /\ contract[Contract_all[2]].book # contract[Contract_all[1]].book
    /\ contract[Contract_all[2]].author = contract[Contract_all[1]].author

\* C7: contracts_by_date(d), for a string d, is the registry restricted to the
\* contracts whose current date is d, in registration order, whoever their
\* authors and books are; it is empty when there is none.
C7_ContractsByDate ==
    \A d \in {date \in DateQueries : date.kind = "str"} :
        LET r == Contract_contracts_by_date(d)
            dated == {c \in Range(Contract_all) : contract[c].date.s = d.s}
        IN  /\ Range(r) = dated
            /\ InOrderOf(r, Contract_all)
            /\ dated = {} => r = <<>>

\* C7 witness: contracts_by_date has just returned the first and the third
\* registered contract, leaving out the second, which has another date.
C7_Witness ==
    /\ last.op = "Contract.contracts_by_date"
    /\ Len(Contract_all) = 3
    /\ last.ret = <<ContractRef(Contract_all[1]), ContractRef(Contract_all[3])>>

\* C7, second case: contracts_by_date has just returned two contracts of
\* different authors.
C7_WitnessAuthors ==
    /\ last.op = "Contract.contracts_by_date"
    /\ Len(last.ret) = 2
    /\ contract[Contract_all[1]].author # contract[Contract_all[2]].author

\* The sum of the royalties of a set of contracts, each counted once.
RECURSIVE RoyaltiesOf(_)
RoyaltiesOf(cs) ==
    IF cs = {} THEN 0
    ELSE LET c == CHOOSE x \in cs : TRUE
         IN  contract[c].royalties.n + RoyaltiesOf(cs \ {c})

\* C8: a.total_royalties() is the sum of the royalties of the contracts of
\* a.contracts(), each counted once, and 0 for an author without contracts.
C8_TotalRoyalties ==
    \A a \in Range(Author_all) :
        /\ Author_total_royalties(a) = RoyaltiesOf(Range(Author_contracts(a)))
        /\ Author_contracts(a) = <<>> => Author_total_royalties(a) = 0

\* C8 witness: total_royalties has just returned 2 for an author with two
\* contracts of royalties 1 with the same book.
C8_Witness ==
    /\ last.op = "Author.total_royalties"
    /\ last.ret = <<IntV(2)>>
    /\ \E a \in Range(Author_all) :
        /\ Author_total_royalties(a) = 2
        /\ Len(Author_contracts(a)) = 2
        /\ Len(Author_books(a)) = 1

\* C9: each registry only grows at its end; it grows only in a successful
\* construction of its own kind; queries and reassignments of Contract
\* fields leave the three registries as they are.
C9_RegistriesAppendOnly ==
    [][/\ IsPrefix(Author_all, Author_all')
       /\ IsPrefix(Book_all, Book_all')
       /\ IsPrefix(Contract_all, Contract_all')
       /\ Author_all' # Author_all => last'.op = "Author" /\ last'.err = NoError
       /\ Book_all' # Book_all => last'.op = "Book" /\ last'.err = NoError
       /\ Contract_all' # Contract_all =>
            last'.op \in {"Contract", "sign_contract"} /\ last'.err = NoError
       /\ last'.op \in QueryOps \cup SetterOps => registries' = registries]_vars

\* C9 witness: the book of a contract has just been reassigned with several
\* authors and contracts registered.
C9_Witness ==
    /\ last.op = "book="
    /\ last.err = NoError
    /\ Len(Author_all) >= 2
    /\ Len(Contract_all) >= 2

\* C10: b is in a.books() if and only if a is in b.authors(), also after the
\* author or the book of registered contracts has been reassigned.
C10_BooksAuthorsConsistent ==
    \A a \in Range(Author_all), b \in Range(Book_all) :
        BookRef(b) \in Range(Author_books(a)) <=> AuthorRef(a) \in Range(Book_authors(b))

\* C10 witness: after a reassignment of an author, one book has two authors.
C10_Witness ==
    /\ last.op = "author="
    /\ last.err = NoError
    /\ \E b \in Range(Book_all) : Len(Book_authors(b)) = 2

====
